---- MODULE Spec2Model ----
(***************************************************************************)
(* Model of autotranscode.py: discovery of audio files in an input tree,   *)
(* a ThreadPoolExecutor running one process_file task per discovered file, *)
(* the completion loop of main() that tallies the results, and the output  *)
(* namer get_unique_output_path.                                           *)
(***************************************************************************)
EXTENDS Integers, Sequences, FiniteSets, TLC

\* ------------------------------------------------------------------ bounds
MaxFiles == 3       \* at most this many files exist in the input tree
MaxThreads == 2     \* --threads ranges over 0..MaxThreads
MaxIndex == 2       \* largest _k suffix among the paths the namer is tried on

\* ------------------------------------------------------- program constants
KB == 1024          \* bytes per KB in is_file_too_small

\* --------------------------------------------------------------- the tree
\* The files the input tree may hold, in the order os.walk lists them.
Tree ==
  << [dir |-> "A", stem |-> "track", ext |-> ".flac"],
     [dir |-> "B", stem |-> "track", ext |-> ".flac"],
     [dir |-> "B", stem |-> "track", ext |-> ".MP3"],
     [dir |-> "A", stem |-> "notes", ext |-> ".txt"] >>

Ids == 1..Len(Tree)

Unreadable == -1    \* os.path.getsize raises
Absent == <<"absent">>
NoPath == [stem |-> "", sfx |-> <<>>, ext |-> ""]
NoResult == "none"   \* process_file has not returned; else "True" or "False"

\* str.lower() on the part of the name that endswith() looks at
Lower(ext) ==
  CASE ext = ".FLAC" -> ".flac"
    [] ext = ".MP3"  -> ".mp3"
    [] OTHER         -> ext

\* file_lower.endswith(('.flac', '.mp3'))
IsAudioName(i) == Lower(Tree[i].ext) \in {".flac", ".mp3"}

\* 'flac' if file_lower.endswith('.flac') else 'mp3'
FileType(i) == IF Lower(Tree[i].ext) = ".flac" THEN "flac" ELSE "mp3"

\* faulty variant: an unreadable size counts as too small
IsFileTooSmallLax(sz, min_kb) == sz = Unreadable \/ sz < min_kb * KB

\* is_file_too_small: getsize(path) / 1024 < min_size_kb, False on any
\* exception.  size / 1024 < m is size < m * 1024 for an integer m.
IsFileTooSmall(sz, min_kb) ==
  IF sz = Unreadable THEN FALSE ELSE sz < min_kb * KB

\* ------------------------------------------------------------ output namer
\* An output path is kept split as os.path.splitext splits it: the name is
\* the stem followed by the _k suffixes already appended, then the extension.
OutPath(stem, sfx, ext) == [stem |-> stem, sfx |-> sfx, ext |-> ext]

\* f"{name}_{index}{ext}"
Suffixed(p, index) == [p EXCEPT !.sfx = Append(@, index)]

RECURSIVE FirstFreeIndex(_, _, _)
\* index = 1; while os.path.exists(f"{name}_{index}{ext}"): index += 1
FirstFreeIndex(p, existing, index) ==
  IF Suffixed(p, index) \in existing
    THEN FirstFreeIndex(p, existing, index + 1)
    ELSE index

\* faulty variant: no existence check at all
GetUniqueOutputPathNoCheck(output_file, existing) == output_file

\* faulty variant: _1 is taken without looking whether it exists
GetUniqueOutputPathNoLoop(output_file, existing) ==
  IF output_file \notin existing THEN output_file ELSE Suffixed(output_file, 1)

\* get_unique_output_path on a folder holding the paths of existing
GetUniqueOutputPath(output_file, existing) ==
  IF output_file \notin existing
    THEN output_file
    ELSE Suffixed(output_file, FirstFreeIndex(output_file, existing, 1))

\* copy_file: output_dir / mp3_path.name; transcode_file: stem + ".mp3"
TargetPath(i) ==
  IF FileType(i) = "mp3"
    THEN OutPath(Tree[i].stem, <<>>, Tree[i].ext)
    ELSE OutPath(Tree[i].stem, <<>>, ".mp3")

\* ------------------------------------------------------------------ state
VARIABLES
  min_size, delete_small, threads,  \* args of parse_arguments
  present,            \* the files the input tree holds when the run starts
  size,               \* bytes of each input file, Unreadable when getsize raises
  infs,               \* input tree: content of each file, Absent when not on disk
  outfs,              \* output folder: existing path -> content
  phase,              \* where main() is
  walk,               \* files os.walk has still to yield
  audio_files,        \* find_audio_files: list of <<file, type>>
  small_files_count,  \* find_audio_files: small_files_count
  failed_deletes,     \* files for which delete_small_file returned False
  total_files, completed, failed,   \* main: the run counters
  submitted,          \* number of executor.submit calls made
  tstate,             \* per task: none, queued, running, resolved, finished
  work_queue,         \* executor work queue (FIFO)
  num_threads,        \* executor worker threads spawned
  output_file,        \* per task: the path get_unique_output_path returned
  result,             \* per task: the boolean process_file returned
  done_before,        \* per task: tasks already finished when it picked its path
  counted,            \* futures as_completed has yielded
  summary,            \* tallies printed by the final summary line
  exit_code,          \* process exit status once the run ended
  nm_pc, nm_arg, nm_existing, nm_ret   \* a single get_unique_output_path call

args == <<min_size, delete_small, threads>>
tree == <<present, size>>
disc == <<walk, audio_files, small_files_count, failed_deletes>>
counters == <<total_files, completed, failed>>
pool == <<submitted, tstate, work_queue, num_threads, output_file, result,
          done_before, counted>>
namer == <<nm_pc, nm_arg, nm_existing, nm_ret>>
vars == <<args, tree, infs, outfs, phase, disc, counters, pool, summary,
          exit_code, namer>>

Tasks == 1..Len(audio_files)
TaskFile(t) == audio_files[t][1]
Busy == {t \in Ids : tstate[t] \in {"running", "resolved"}}

OrigContent(i) == <<"orig", i>>
OldContent == <<"old">>

\* the walk order restricted to the files on disk
RECURSIVE Listing(_, _)
Listing(fs, i) ==
  IF i > Len(Tree) THEN <<>>
  ELSE IF fs[i] = Absent THEN Listing(fs, i + 1)
  ELSE <<i>> \o Listing(fs, i + 1)

\* ------------------------------------------------------------------- inputs
RunSizes == {KB - 1, KB}
RunMinSizes == {1}
DiscSizes == {0, KB - 1, KB, 2 * KB - 1, 2 * KB, Unreadable}
DiscMinSizes == {0, 1, 2}
ThreadChoices == 0..MaxThreads
\* what the output folder may hold before the run
PreExisting == {OutPath("track", <<>>, ".mp3"), OutPath("track", <<1>>, ".mp3")}

NamerUniverse ==
  {OutPath("track", s, ".mp3") :
     s \in {<<>>} \cup {<<k>> : k \in 1..MaxIndex} \cup {<<1, k>> : k \in 1..MaxIndex}}

NamerIdle ==
  /\ nm_pc = "idle"
  /\ nm_arg = NoPath
  /\ nm_existing = {}
  /\ nm_ret = NoPath

\* main() before its first statement, on the given inputs
InitWith(sizes, mins) ==
  /\ min_size \in mins
  /\ delete_small \in BOOLEAN
  /\ threads \in ThreadChoices
  /\ present \in {S \in SUBSET Ids : Cardinality(S) <= MaxFiles}
  /\ \E sz \in [present -> sizes] :
       size = [i \in Ids |-> IF i \in present THEN sz[i] ELSE 0]
  /\ infs = [i \in Ids |-> IF i \in present THEN OrigContent(i) ELSE Absent]
  /\ \E pre \in SUBSET PreExisting : outfs = [p \in pre |-> OldContent]
  /\ phase = "Idle"
  /\ walk = <<>>
  /\ audio_files = <<>>
  /\ small_files_count = 0
  /\ failed_deletes = {}
  /\ total_files = 0
  /\ completed = 0
  /\ failed = 0
  /\ submitted = 0
  /\ tstate = [i \in Ids |-> "none"]
  /\ work_queue = <<>>
  /\ num_threads = 0
  /\ output_file = [i \in Ids |-> NoPath]
  /\ result = [i \in Ids |-> NoResult]
  /\ done_before = [i \in Ids |-> {}]
  /\ counted = {}
  /\ summary = <<>>
  /\ exit_code = -1

Init == InitWith(RunSizes, RunMinSizes) /\ NamerIdle

\* --------------------------------------------------------------- discovery
\* main: parse_arguments, os.makedirs, then find_audio_files starts its walk
StartRun ==
  /\ phase = "Idle"
  /\ phase' = "Discovering"
  /\ walk' = Listing(infs, 1)
  /\ UNCHANGED <<args, tree, infs, outfs, audio_files, small_files_count,
                 failed_deletes, counters, pool, summary, exit_code, namer>>

\* faulty variant: small files are deleted whatever the flag
DeleteRequestedAlways(flag) == TRUE

\* if delete_small:
DeleteRequested(flag) == flag

\* delete_small_file: os.remove; a failure is printed and swallowed
DeleteSmallFile(fs, i, ok) == IF ok THEN [fs EXCEPT ![i] = Absent] ELSE fs

\* a file whose name is neither .flac nor .mp3
WalkIgnore ==
  /\ phase = "Discovering"
  /\ walk # <<>>
  /\ ~IsAudioName(Head(walk))
  /\ walk' = Tail(walk)
  /\ UNCHANGED <<args, tree, infs, outfs, phase, audio_files, small_files_count,
                 failed_deletes, counters, pool, summary, exit_code, namer>>

\* an audio file that is too small: counted, deleted on request, not listed
WalkSmall ==
  /\ phase = "Discovering"
  /\ walk # <<>>
  /\ LET i == Head(walk) IN
       /\ IsAudioName(i)
       /\ IsFileTooSmall(size[i], min_size)
       /\ small_files_count' = small_files_count + 1
       /\ IF DeleteRequested(delete_small)
            THEN \E ok \in BOOLEAN :
                   /\ infs' = DeleteSmallFile(infs, i, ok)
                   /\ failed_deletes' = IF ok THEN failed_deletes
                                              ELSE failed_deletes \cup {i}
            ELSE UNCHANGED <<infs, failed_deletes>>
  /\ walk' = Tail(walk)
  /\ UNCHANGED <<args, tree, outfs, phase, audio_files, counters, pool,
                 summary, exit_code, namer>>

\* an audio file that is not too small: appended with its type
WalkInclude ==
  /\ phase = "Discovering"
  /\ walk # <<>>
  /\ LET i == Head(walk) IN
       /\ IsAudioName(i)
       /\ ~IsFileTooSmall(size[i], min_size)
       /\ audio_files' = Append(audio_files, <<i, FileType(i)>>)
  /\ walk' = Tail(walk)
  /\ UNCHANGED <<args, tree, infs, outfs, phase, small_files_count,
                 failed_deletes, counters, pool, summary, exit_code, namer>>

\* total_files == 0: message and sys.exit(0)
NoFilesExit ==
  /\ phase = "Discovering"
  /\ walk = <<>>
  /\ Len(audio_files) = 0
  /\ total_files' = 0
  /\ phase' = "Done"
  /\ exit_code' = 0
  /\ UNCHANGED <<args, tree, infs, outfs, disc, completed, failed, pool,
                 summary, namer>>

\* ThreadPoolExecutor(max_workers=...) raises ValueError unless max_workers > 0
ExecutorAccepts(max_workers) == max_workers > 0

\* total_files > 0: counters set to zero and the executor constructed
CreateExecutor ==
  /\ phase = "Discovering"
  /\ walk = <<>>
  /\ Len(audio_files) > 0
  /\ total_files' = Len(audio_files)
  /\ completed' = 0
  /\ failed' = 0
  /\ IF ExecutorAccepts(threads)
       THEN phase' = "Dispatching" /\ UNCHANGED exit_code
       ELSE phase' = "Aborted" /\ exit_code' = 1
  /\ UNCHANGED <<args, tree, infs, outfs, disc, pool, summary, namer>>

\* ------------------------------------------------------------ the executor
\* faulty variant: files are submitted while the walk is still going
CanSubmitEarly == phase \in {"Discovering", "Dispatching"}

\* the submit loop runs inside the with block, after find_audio_files returned
CanSubmit == phase = "Dispatching"

\* faulty variant: max_workers is not looked at
AdjustThreadCountUnbounded(n, idle, max_workers) ==
  IF idle > 0 THEN n ELSE n + 1

\* ThreadPoolExecutor.submit: a worker thread is spawned when none is idle and
\* fewer than max_workers exist
AdjustThreadCount(n, idle, max_workers) ==
  IF idle > 0 THEN n ELSE IF n < max_workers THEN n + 1 ELSE n

IdleWorkers ==
  LET spare == num_threads - Cardinality(Busy) - Len(work_queue)
  IN  IF spare > 0 THEN spare ELSE 0

\* executor.submit(process_file, file_info, args.output_folder)
Submit ==
  /\ CanSubmit
  /\ submitted < Len(audio_files)
  /\ LET t == submitted + 1 IN
       /\ submitted' = t
       /\ tstate' = [tstate EXCEPT ![t] = "queued"]
       /\ work_queue' = Append(work_queue, t)
       /\ num_threads' = AdjustThreadCount(num_threads, IdleWorkers, threads)
  /\ UNCHANGED <<args, tree, infs, outfs, phase, disc, counters, output_file,
                 result, done_before, counted, summary, exit_code, namer>>

\* the dict comprehension is complete; as_completed starts
EndSubmit ==
  /\ phase = "Dispatching"
  /\ submitted = Len(audio_files)
  /\ phase' = "Draining"
  /\ UNCHANGED <<args, tree, infs, outfs, disc, counters, pool, summary,
                 exit_code, namer>>

\* a free worker thread takes the oldest work item and calls process_file
StartTask(t) ==
  /\ work_queue # <<>>
  /\ t = Head(work_queue)
  /\ Cardinality(Busy) < num_threads
  /\ work_queue' = Tail(work_queue)
  /\ tstate' = [tstate EXCEPT ![t] = "running"]
  /\ UNCHANGED <<args, tree, infs, outfs, phase, disc, counters, submitted,
                 num_threads, output_file, result, done_before, counted,
                 summary, exit_code, namer>>

\* copy_file / transcode_file up to the return of get_unique_output_path.
\* Files are only ever added to the output folder, so the path the loop of
\* exists() calls returns is the one it computes on the folder as it is at
\* the last of these calls; the call is one step taken at that moment.
Resolve(t) ==
  /\ tstate[t] = "running"
  /\ output_file' = [output_file EXCEPT
                       ![t] = GetUniqueOutputPath(TargetPath(TaskFile(t)), DOMAIN outfs)]
  /\ done_before' = [done_before EXCEPT
                       ![t] = {u \in Ids : tstate[u] = "finished"}]
  /\ tstate' = [tstate EXCEPT ![t] = "resolved"]
  /\ UNCHANGED <<args, tree, infs, outfs, phase, disc, counters, submitted,
                 work_queue, num_threads, result, counted, summary, exit_code,
                 namer>>

\* shutil.copy2 duplicates the source; ffmpeg writes the encoded stream
Converted(t) ==
  IF audio_files[t][2] = "mp3" THEN infs[TaskFile(t)] ELSE <<"mp3", TaskFile(t)>>

PartialContent(t) == <<"partial", TaskFile(t)>>

\* the file at path p is created or overwritten (copy2, ffmpeg -y)
WriteFile(fs, p, c) == [q \in DOMAIN fs \cup {p} |-> IF q = p THEN c ELSE fs[q]]

\* return True on returncode 0 or a completed copy; False on a nonzero
\* returncode and on any exception
TaskResult(outcome) == IF outcome = "ok" THEN "True" ELSE "False"

\* the conversion succeeds: the output is written and process_file returns True
FinishOk(t) ==
  /\ tstate[t] = "resolved"
  /\ outfs' = WriteFile(outfs, output_file[t], Converted(t))
  /\ result' = [result EXCEPT ![t] = TaskResult("ok")]
  /\ tstate' = [tstate EXCEPT ![t] = "finished"]
  /\ UNCHANGED <<args, tree, infs, phase, disc, counters, submitted, work_queue,
                 num_threads, output_file, done_before, counted, summary,
                 exit_code, namer>>

\* the conversion fails (copy exception, nonzero encoder exit, encoder
\* missing), leaving no output or a partial one; process_file returns False
FinishFail(t) ==
  /\ tstate[t] = "resolved"
  /\ \E outcome \in {"fail", "partial"} :
       /\ outfs' = IF outcome = "partial"
                     THEN WriteFile(outfs, output_file[t], PartialContent(t))
                     ELSE outfs
       /\ result' = [result EXCEPT ![t] = TaskResult(outcome)]
  /\ tstate' = [tstate EXCEPT ![t] = "finished"]
  /\ UNCHANGED <<args, tree, infs, phase, disc, counters, submitted, work_queue,
                 num_threads, output_file, done_before, counted, summary,
                 exit_code, namer>>

\* ------------------------------------------------------ the completion loop
\* faulty variant: both counters are incremented
NextCountersBoth(c, f, r) == <<c + 1, f + 1>>

\* faulty variant: a failure is not tallied
NextCountersDropFailed(c, f, r) == IF r = "True" THEN <<c + 1, f>> ELSE <<c, f>>

\* if future.result(): completed += 1 else: failed += 1
NextCounters(c, f, r) == IF r = "True" THEN <<c + 1, f>> ELSE <<c, f + 1>>

\* faulty variant: a failed task's error reaches the loop and ends the run
PhaseAfterResultRaising(r) == IF r = "True" THEN "Draining" ELSE "Aborted"

\* the loop goes on to the next completed future whatever the result was
PhaseAfterResult(r) == "Draining"

\* as_completed yields a finished future; main() tallies its result
Count(t) ==
  /\ phase = "Draining"
  /\ tstate[t] = "finished"
  /\ t \notin counted
  /\ counted' = counted \cup {t}
  /\ completed' = NextCounters(completed, failed, result[t])[1]
  /\ failed' = NextCounters(completed, failed, result[t])[2]
  /\ phase' = PhaseAfterResult(result[t])
  /\ UNCHANGED <<args, tree, infs, outfs, disc, total_files, submitted, tstate,
                 work_queue, num_threads, output_file, result, done_before,
                 summary, exit_code, namer>>

\* every future was yielded: the with block ends and the summary is printed
EndDrain ==
  /\ phase = "Draining"
  /\ counted = Tasks
  /\ phase' = "Done"
  /\ summary' = <<completed, failed>>
  /\ exit_code' = 0
  /\ UNCHANGED <<args, tree, infs, outfs, disc, counters, pool, namer>>

Next ==
  \/ StartRun
  \/ WalkIgnore
  \/ WalkSmall
  \/ WalkInclude
  \/ NoFilesExit
  \/ CreateExecutor
  \/ Submit
  \/ EndSubmit
  \/ \E t \in Ids : StartTask(t)
  \/ \E t \in Ids : Resolve(t)
  \/ \E t \in Ids : FinishOk(t)
  \/ \E t \in Ids : FinishFail(t)
  \/ \E t \in Ids : Count(t)
  \/ EndDrain

Spec == Init /\ [][Next]_vars

\* ------------------------------------------- find_audio_files on any inputs
DiscInit == InitWith(DiscSizes, DiscMinSizes) /\ NamerIdle

DiscNext ==
  \/ StartRun
  \/ WalkIgnore
  \/ WalkSmall
  \/ WalkInclude
  \/ NoFilesExit
  \/ CreateExecutor

DiscSpec == DiscInit /\ [][DiscNext]_vars

\* ---------------------------------- get_unique_output_path on any folder
NamerInit ==
  /\ min_size = 1
  /\ delete_small = FALSE
  /\ threads = 1
  /\ present = {}
  /\ size = [i \in Ids |-> 0]
  /\ infs = [i \in Ids |-> Absent]
  /\ outfs = [p \in {} |-> OldContent]
  /\ phase = "Idle"
  /\ walk = <<>>
  /\ audio_files = <<>>
  /\ small_files_count = 0
  /\ failed_deletes = {}
  /\ total_files = 0
  /\ completed = 0
  /\ failed = 0
  /\ submitted = 0
  /\ tstate = [i \in Ids |-> "none"]
  /\ work_queue = <<>>
  /\ num_threads = 0
  /\ output_file = [i \in Ids |-> NoPath]
  /\ result = [i \in Ids |-> NoResult]
  /\ done_before = [i \in Ids |-> {}]
  /\ counted = {}
  /\ summary = <<>>
  /\ exit_code = -1
  /\ nm_pc = "call"
  /\ nm_arg \in NamerUniverse
  /\ nm_existing \in SUBSET NamerUniverse
  /\ nm_ret = NoPath

NamerCall ==
  /\ nm_pc = "call"
  /\ nm_ret' = GetUniqueOutputPath(nm_arg, nm_existing)
  /\ nm_pc' = "returned"
  /\ UNCHANGED <<args, tree, infs, outfs, phase, disc, counters, pool, summary,
                 exit_code, nm_arg, nm_existing>>

NamerNext == NamerCall

NamerSpec == NamerInit /\ [][NamerNext]_vars

\* ------------------------------------------------------------------ claims
Returned == phase \notin {"Idle", "Discovering"}
Summarised == phase = "Done" /\ summary # <<>>
\* an audio file whose size can be read and is below the threshold
SmallAudio(i) ==
  IsAudioName(i) /\ size[i] # Unreadable /\ size[i] < min_size * KB
Listed(i) == \E t \in Tasks : audio_files[t][1] = i
Succeeded == {t \in Tasks : result[t] = "True"}
Failed == {t \in Tasks : result[t] = "False"}
SameTarget(t, u) == TargetPath(TaskFile(t)) = TargetPath(TaskFile(u))
\* one of the two tasks had returned when the other made its existence check
Serialised(t, u) == u \in done_before[t] \/ t \in done_before[u]
QueuedItems == {work_queue[k] : k \in 1..Len(work_queue)}

\* C1: completed + failed never exceeds total, and no step decreases it.
C1_CountersBoundedMonotone ==
  /\ [](completed + failed <= total_files)
  /\ [][completed' + failed' >= completed + failed]_vars

C1_Witness ==
  /\ threads = 2
  /\ total_files >= 2
  /\ completed >= 1
  /\ failed >= 1
  /\ completed + failed = total_files

\* C2: at the final summary completed + failed = total; every discovered file
\* was submitted once, has one boolean result, and was tallied once.
C2_AllTalliedAtEnd ==
  Summarised =>
    /\ completed + failed = total_files
    /\ total_files = Len(audio_files)
    /\ submitted = total_files
    /\ counted = Tasks
    /\ \A t \in Tasks : result[t] \in {"True", "False"}
    /\ summary = <<completed, failed>>

C2_Witness ==
  /\ Summarised
  /\ threads = 2
  /\ total_files >= 2
  /\ failed >= 1
  /\ \E t \in Tasks, u \in Tasks : t # u /\ ~Serialised(t, u)

\* C3 (as stated): two successful tasks with the same output basename always
\* write different paths, whatever the interleaving.
C3_DistinctUnderEveryInterleaving ==
  \A t \in Succeeded, u \in Succeeded :
    (t # u /\ SameTarget(t, u)) => output_file[t] # output_file[u]

\* C3 (amended): two successful tasks with the same output basename write
\* different paths whenever one had returned before the other's existence
\* check, as is always so with one worker; the folder then holds name.mp3 and
\* name_1.mp3 and each output path holds its own task's conversion.
C3_DistinctWhenSerialised ==
  \A t \in Succeeded, u \in Succeeded :
    (t # u /\ SameTarget(t, u)) =>
      /\ threads = 1 => Serialised(t, u)
      /\ Serialised(t, u) =>
           /\ output_file[t] # output_file[u]
           /\ TargetPath(TaskFile(t)) \in DOMAIN outfs
           /\ Suffixed(TargetPath(TaskFile(t)), 1) \in DOMAIN outfs
           /\ outfs[output_file[t]] = Converted(t)
           /\ outfs[output_file[u]] = Converted(u)

C3_Witness ==
  /\ Summarised
  /\ threads = 2
  /\ DOMAIN outfs = {OutPath("track", <<>>, ".mp3"), OutPath("track", <<1>>, ".mp3")}
  /\ outfs[OutPath("track", <<>>, ".mp3")] = <<"mp3", 1>>
  /\ outfs[OutPath("track", <<1>>, ".mp3")] = <<"mp3", 2>>
  /\ \E t \in Succeeded, u \in Succeeded :
       t # u /\ SameTarget(t, u) /\ Serialised(t, u)

\* C4: the tasks started and not yet returned never number more than --threads.
C4_AtMostNActive ==
  /\ Cardinality(Busy) <= threads
  /\ num_threads <= threads

C4_Witness ==
  /\ phase = "Dispatching"
  /\ threads = 2
  /\ Cardinality(Busy) = 2
  /\ Len(work_queue) >= 1

\* C5: the run never aborts as a whole, for any worker count the CLI accepts.
C5_RunNeverAborts == phase # "Aborted"

\* C6: a failing task is seen only as a False result that increments failed;
\* it aborts nothing, drops no queued task, and every other task is run and
\* tallied under its own result.
C6_FailureContained ==
  /\ phase = "Aborted" => submitted = 0
  /\ \A t \in Ids : tstate[t] = "queued" <=> t \in QueuedItems
  /\ completed = Cardinality(Succeeded \cap counted)
  /\ failed = Cardinality(Failed \cap counted)
  /\ Summarised =>
       /\ \A t \in Tasks : tstate[t] = "finished" /\ t \in counted
       /\ summary = <<Cardinality(Succeeded), Cardinality(Failed)>>

C6_Witness ==
  /\ Summarised
  /\ \E t \in Failed, u \in Succeeded, v \in Succeeded :
       /\ t \in done_before[u]
       /\ ~Serialised(t, v)

\* C7: get_unique_output_path returns a path that does not exist; the path
\* itself when it is free, else name_N.ext for the smallest N >= 1 that is free.
C7_SmallestFreeIndex ==
  nm_pc = "returned" =>
    /\ nm_ret \notin nm_existing
    /\ nm_arg \notin nm_existing => nm_ret = nm_arg
    /\ nm_arg \in nm_existing =>
         \E n \in 1..(Cardinality(nm_existing) + 1) :
           /\ nm_ret = Suffixed(nm_arg, n)
           /\ \A k \in 1..(n - 1) : Suffixed(nm_arg, k) \in nm_existing

C7_Witness ==
  /\ nm_pc = "returned"
  /\ nm_arg = OutPath("track", <<>>, ".mp3")
  /\ OutPath("track", <<1>>, ".mp3") \in nm_existing
  /\ nm_ret = OutPath("track", <<2>>, ".mp3")

\* C8: every file of the tree is in exactly one class; the result list holds,
\* once each and with the type of its extension, exactly the .flac/.mp3 files
\* that are not too small, those of unreadable size included.
C8_Classification ==
  Returned =>
    /\ \A i \in present :
         /\ Listed(i) <=> (IsAudioName(i) /\ ~SmallAudio(i))
         /\ Cardinality({t \in Tasks : audio_files[t][1] = i}) <= 1
    /\ \A t \in Tasks :
         /\ audio_files[t][1] \in present
         /\ audio_files[t][2] =
              (IF Lower(Tree[audio_files[t][1]].ext) = ".flac" THEN "flac" ELSE "mp3")
    /\ small_files_count = Cardinality({i \in present : SmallAudio(i)})

C8_Witness ==
  /\ Returned
  /\ \E i \in present, j \in present, k \in present :
       /\ size[i] = Unreadable /\ Listed(i) /\ audio_files[1] = <<i, "mp3">>
       /\ SmallAudio(j) /\ size[j] = 2 * KB - 1
       /\ ~IsAudioName(k)

\* C9 (as stated): with --delete-small every too-small audio file is removed.
C9_EverySmallFileRemoved ==
  (Returned /\ delete_small) =>
    \A i \in present : SmallAudio(i) => infs[i] = Absent

\* C9 (amended): inputs keep their content; the only files removed are the
\* too-small audio files under --delete-small, each removed unless its
\* os.remove failed; without the flag they stay; none of them is listed.
C9_OnlySmallFilesDeleted ==
  /\ \A i \in Ids :
       /\ infs[i] \in {OrigContent(i), Absent}
       /\ i \notin present => infs[i] = Absent
       /\ (i \in present /\ infs[i] = Absent) =>
            (delete_small /\ SmallAudio(i) /\ i \notin failed_deletes)
       /\ SmallAudio(i) => ~Listed(i)
  /\ Returned =>
       \A i \in present :
         SmallAudio(i) =>
           (infs[i] = Absent <=> (delete_small /\ i \notin failed_deletes))

C9_Witness ==
  /\ Summarised
  /\ delete_small
  /\ completed >= 1
  /\ \E i \in present, j \in present :
       /\ SmallAudio(i) /\ infs[i] = Absent
       /\ SmallAudio(j) /\ j \in failed_deletes /\ infs[j] = OrigContent(j)

\* C10: no task exists before discovery has returned; afterwards the list
\* and the input tree no longer change; with no file found nothing is
\* submitted and the exit code is 0.
C10_DiscoveryBeforeDispatch ==
  /\ []((\E t \in Ids : tstate[t] # "none") => (Returned /\ walk = <<>>))
  /\ []((Returned /\ Len(audio_files) = 0) =>
          (phase = "Done" /\ exit_code = 0 /\ submitted = 0
           /\ \A t \in Ids : tstate[t] = "none"))
  /\ [][(Returned \/ submitted > 0) =>
          (audio_files' = audio_files /\ infs' = infs)]_vars

C10_Witness ==
  /\ phase = "Dispatching"
  /\ delete_small
  /\ tstate[1] = "running"
  /\ \E i \in present : infs[i] = Absent

====
